---------------------------- MODULE Spec2Model ----------------------------
(***************************************************************************)
(* A model of the lease-addendum form of src/app/page.tsx: the currency   *)
(* fields and their derived total, the custom addendum lines, and the PDF *)
(* export routine handleDownloadPDF with its pagination loop.             *)
(*                                                                         *)
(* Numbers.  A JavaScript number is modelled as a record [nan, v]: nan is *)
(* TRUE for NaN, otherwise v is the value in units of 10^-FracDigits.     *)
(* Decimal arithmetic is exact (IEEE rounding is not modelled).           *)
(* Strings typed by the user are sequences of one-character strings.      *)
(***************************************************************************)
EXTENDS Integers, Sequences, FiniteSets, TLC

VARIABLES
    baseRent, insurance, rsTax, cam,  \* the four useState<number> cells
    totalRent, memoDeps,              \* useMemo: cached value and its dependency array
    lastInput,                        \* the field and e.target.value of the latest onChange
    lines,                            \* useState<AddendumLine[]>
    contentRef,                       \* contentRef.current: "null" or "node"
    isDownloading,                    \* useState(false)
    timer,                            \* the effect's setTimeout: "none" or "armed"
    nodeStyle,                        \* node.style: [width, maxWidth]
    proc,                             \* one record per invocation of handleDownloadPDF
    lastPdf,                          \* the document handed to pdf.save, NoPdf before any
    calls,                            \* number of invocations of handleDownloadPDF so far
    fontsApi                          \* whether document.fonts?.ready is truthy in this browser

formVars   == <<baseRent, insurance, rsTax, cam, totalRent, memoDeps, lastInput>>
lineVars   == <<lines>>
exportVars == <<contentRef, isDownloading, timer, nodeStyle, proc, lastPdf, calls, fontsApi>>
vars       == <<formVars, lineVars, exportVars>>

---------------------------------------------------------------------------
(* Bounds of the model *)

MaxLen == 2            \* longest enumerated keystroke string
MaxLines == 3          \* most custom lines held at once
NumTokens == 3         \* distinct values uid() can return
MaxCalls == 2          \* invocations of handleDownloadPDF
MaxCanvasHeight == 5   \* canvas.height ranges over 0..MaxCanvasHeight
MaxPageHeight == 2     \* pdf.internal.pageSize.getHeight() ranges over 1..MaxPageHeight

---------------------------------------------------------------------------
(* Numbers *)

FracDigits == IF MaxLen > 2 THEN MaxLen ELSE 2

RECURSIVE Pow10(_)
Pow10(n) == IF n = 0 THEN 1 ELSE 10 * Pow10(n - 1)

Scale == Pow10(FracDigits)

NaN == [nan |-> TRUE, v |-> 0]
Num(v) == [nan |-> FALSE, v |-> v]
Zero == Num(0)

\* JavaScript a + b: NaN if either operand is NaN
Add(a, b) == IF a.nan \/ b.nan THEN NaN ELSE Num(a.v + b.v)

---------------------------------------------------------------------------
(* toNumber *)

DigitChars == <<"0", "1", "2", "3", "4", "5", "6", "7", "8", "9">>
IsDigit(c) == \E k \in 1..10 : DigitChars[k] = c
DigitVal(c) == (CHOOSE k \in 1..10 : DigitChars[k] = c) - 1

\* value of a sequence of digit characters read as a decimal numeral
RECURSIVE DecVal(_)
DecVal(ds) ==
    IF ds = <<>> THEN 0
    ELSE 10 * DecVal(SubSeq(ds, 1, Len(ds) - 1)) + DigitVal(ds[Len(ds)])

\* length of the longest run of digits of s that starts at index from
DigitRun(s, from) ==
    CHOOSE k \in 0..(Len(s) - from + 1) :
        /\ \A j \in from..(from + k - 1) : IsDigit(s[j])
        /\ (from + k > Len(s) \/ ~IsDigit(s[from + k]))

\* String(raw).replace(/[^\d.]/g, "")
StripNonNumeric(raw) == SelectSeq(raw, LAMBDA c : IsDigit(c) \/ c = ".")

\* parseFloat on a string of digits and dots: the longest prefix of the form
\* digits [ "." digits ] with at least one digit; NaN when there is none
parseFloat(s) ==
    LET intLen  == DigitRun(s, 1)
        hasDot  == intLen < Len(s) /\ s[intLen + 1] = "."
        fracLen == IF hasDot THEN DigitRun(s, intLen + 2) ELSE 0
        intPart == DecVal(SubSeq(s, 1, intLen))
        fracPart == DecVal(SubSeq(s, intLen + 2, intLen + 1 + fracLen))
    IN  IF intLen = 0 /\ fracLen = 0
        THEN NaN
        ELSE Num(intPart * Scale + fracPart * Pow10(FracDigits - fracLen))

toNumber(raw) ==
    LET cleaned == StripNonNumeric(raw)
    IN  IF cleaned = <<>> THEN Zero ELSE parseFloat(cleaned)

---------------------------------------------------------------------------
(* Keystroke strings *)

Alphabet == {"7", "."}

RECURSIVE StringsUpTo(_)
StringsUpTo(n) ==
    IF n = 0 THEN {<<>>}
    ELSE LET shorter == StringsUpTo(n - 1)
         IN  shorter \cup {Append(s, c) : s \in shorter, c \in Alphabet}

ExampleDollars == <<"$", "1", ",", "2", "3", "4", ".", "5", "6", "a", "b", "c">>
ExampleDashes  == <<"-", "-">>
ExampleDots    == <<".", ".">>
ExampleMixed   == <<"$", "7", "a", ".", "7">>

Inputs ==
    StringsUpTo(MaxLen) \cup {ExampleDollars, ExampleDashes, ExampleDots, ExampleMixed}

\* toNumber tabulated over the inputs (evaluated once)
ParsedInput == [t \in Inputs |-> toNumber(t)]

Fields == {"baseRent", "insurance", "rsTax", "cam"}

---------------------------------------------------------------------------
(* Form state: the four currency cells and the memoised total *)

\* the dependency array of the useMemo
MutTotalDeps(b, i, r, c) == <<b, i, r>>
TotalDeps(b, i, r, c) == <<b, i, r, c>>

\* the useMemo callback
ComputeTotal(b, i, r, c) == Add(Add(Add(b, i), r), c)

\* a render with the given cell values: useMemo recomputes when a dependency changed
RenderTotal(b, i, r, c) ==
    IF TotalDeps(b, i, r, c) # memoDeps
    THEN /\ totalRent' = ComputeTotal(b, i, r, c)
         /\ memoDeps' = TotalDeps(b, i, r, c)
    ELSE UNCHANGED <<totalRent, memoDeps>>

\* CurrencyInput.onChange of field f with e.target.value = t
CurrencyOnChange(f, t) ==
    LET n == ParsedInput[t]
        b == IF f = "baseRent" THEN n ELSE baseRent
        i == IF f = "insurance" THEN n ELSE insurance
        r == IF f = "rsTax" THEN n ELSE rsTax
        c == IF f = "cam" THEN n ELSE cam
    IN  /\ lastInput' = [field |-> f, text |-> t]
        /\ baseRent' = b
        /\ insurance' = i
        /\ rsTax' = r
        /\ cam' = c
        /\ RenderTotal(b, i, r, c)
        /\ UNCHANGED <<lineVars, exportVars>>

FieldValue(f) ==
    CASE f = "baseRent" -> baseRent
      [] f = "insurance" -> insurance
      [] f = "rsTax" -> rsTax
      [] f = "cam" -> cam

NoInput == [field |-> "none", text |-> <<>>]

InitForm ==
    /\ baseRent = Zero
    /\ insurance = Zero
    /\ rsTax = Zero
    /\ cam = Zero
    /\ totalRent = Zero
    /\ memoDeps = TotalDeps(Zero, Zero, Zero, Zero)
    /\ lastInput = NoInput

NextForm == \E f \in Fields, t \in Inputs : CurrencyOnChange(f, t)

---------------------------------------------------------------------------
(* Custom addendum lines *)

Tokens == 1..NumTokens
Texts == {"", "x"}

\* Math.random().toString(36).slice(2, 9): some token, not checked against the list
uid == Tokens

addLine ==
    /\ Len(lines) < MaxLines
    /\ \E id \in uid : lines' = Append(lines, [id |-> id, text |-> ""])
    /\ UNCHANGED <<formVars, exportVars>>

\* prev.map((l) => (l.id === id ? { ...l, text } : l))
updateLine(id, text) ==
    /\ \E k \in 1..Len(lines) : lines[k].id = id
    /\ lines' = [k \in 1..Len(lines) |->
                    IF lines[k].id = id THEN [id |-> id, text |-> text] ELSE lines[k]]
    /\ UNCHANGED <<formVars, exportVars>>

\* prev.filter((l) => l.id !== id)
removeLine(id) ==
    /\ \E k \in 1..Len(lines) : lines[k].id = id
    /\ lines' = SelectSeq(lines, LAMBDA l : l.id # id)
    /\ UNCHANGED <<formVars, exportVars>>

InitLines == lines = <<>>

NextLines ==
    \/ addLine
    \/ \E id \in Tokens, text \in Texts : updateLine(id, text)
    \/ \E id \in Tokens : removeLine(id)

---------------------------------------------------------------------------
(* Pagination.  Heights and positions are held as numerators over the      *)
(* denominator canvas.width, so that imgHeight = canvas.height * imgWidth  *)
(* / canvas.width is exact: imgHeight is canvas.height * pageWidth and     *)
(* pageHeight is pageHeight * canvas.width in these units.                 *)

\* pdf.addImage(imgData, "JPEG", 0, position, imgWidth, imgHeight) on the current page
Image(position, imgHeight) == [position |-> position, height |-> imgHeight]

\* the while loop: pages is the sequence of images placed so far, one per page
RECURSIVE MutPageLoop(_, _, _, _)
MutPageLoop(heightLeft, imgHeight, pageHeight, pages) ==
    IF heightLeft >= 0
    THEN MutPageLoop(heightLeft - pageHeight, imgHeight, pageHeight,
                     Append(pages, Image(heightLeft - imgHeight, imgHeight)))
    ELSE pages

RECURSIVE MutPageLoopOffset(_, _, _, _)
MutPageLoopOffset(heightLeft, imgHeight, pageHeight, pages) ==
    IF heightLeft > 0
    THEN MutPageLoopOffset(heightLeft - pageHeight, imgHeight, pageHeight,
                           Append(pages, Image(heightLeft - pageHeight - imgHeight,
                                               imgHeight)))
    ELSE pages

RECURSIVE PageLoop(_, _, _, _)
PageLoop(heightLeft, imgHeight, pageHeight, pages) ==
    IF heightLeft > 0
    THEN PageLoop(heightLeft - pageHeight, imgHeight, pageHeight,
                  Append(pages, Image(heightLeft - imgHeight, imgHeight)))
    ELSE pages

\* the first addImage at position 0, heightLeft -= pageHeight, then the loop
MutPaginate(imgHeight, pageHeight) ==
    PageLoop(imgHeight, imgHeight, pageHeight, <<Image(0, imgHeight)>>)
Paginate(imgHeight, pageHeight) ==
    PageLoop(imgHeight - pageHeight, imgHeight, pageHeight, <<Image(0, imgHeight)>>)

\* the document built from a canvas and the page size of the jsPDF instance
BuildPdf(canvas, page) ==
    LET imgWidth   == page.width
        imgHeight  == canvas.height * imgWidth
        pageHeight == page.height * canvas.width
    IN  [canvas |-> canvas, page |-> page,
         pages |-> Paginate(imgHeight, pageHeight)]

\* lastPdf before any save: a document without pages
NoPdf == [canvas |-> [height |-> 0, width |-> 1],
          page |-> [width |-> 1, height |-> 1],
          pages |-> <<>>]

\* the values canvas.width and pdf.internal.pageSize.getWidth() range over
CanvasWidths == {1, 2}
PageWidths == {1, 2}

Canvases == [height : 0..MaxCanvasHeight, width : CanvasWidths]
PageSizes == [width : PageWidths, height : 1..MaxPageHeight]

---------------------------------------------------------------------------
(* Export: handleDownloadPDF and the isDownloading timeout effect *)

CSS_WIDTH == 1006

\* `${CSS_WIDTH}px`
Px(n) == ToString(n) \o "px"

\* the effect on [isDownloading], run by the render in which the flag goes from
\* prev to next: unchanged dependency, no run; true arms the timer; the cleanup
\* clears it
MutTimeoutEffect(prev, next, t) == IF next = prev THEN t ELSE "none"
TimeoutEffect(prev, next, t) ==
    IF next = prev THEN t
    ELSE IF next THEN "armed" ELSE "none"

\* setIsDownloading(b) and the render that follows
setIsDownloading(b) ==
    /\ isDownloading' = b
    /\ timer' = TimeoutEffect(isDownloading, b, timer)

\* React attaches the capture node to contentRef when the view is committed
Mount ==
    /\ contentRef = "null"
    /\ contentRef' = "node"
    /\ UNCHANGED <<formVars, lineVars, isDownloading, timer, nodeStyle, proc,
                   lastPdf, calls, fontsApi>>

\* lines 153-156 for invocation p: remember the styles, force the page width
LockWidth(p) ==
    [p EXCEPT !.pc = "raf",
              !.prevWidth = nodeStyle.width,
              !.prevMaxWidth = nodeStyle.maxWidth]

Locked == [width |-> Px(CSS_WIDTH), maxWidth |-> Px(CSS_WIDTH)]

\* a fresh invocation; start records the styles at the time of the click
NewProc == [pc |-> "fonts", prevWidth |-> "unset", prevMaxWidth |-> "unset",
            start |-> nodeStyle]

\* a click on Download PDF: up to the first await
MutHandleDownloadPDF ==
    /\ calls < MaxCalls
    /\ calls' = calls + 1
    /\ setIsDownloading(TRUE)
    /\ IF contentRef = "null"
       THEN UNCHANGED <<nodeStyle, proc>>
       ELSE IF fontsApi
            THEN proc' = Append(proc, NewProc) /\ UNCHANGED nodeStyle
            ELSE proc' = Append(proc, LockWidth(NewProc)) /\ nodeStyle' = Locked
    /\ UNCHANGED <<formVars, lineVars, contentRef, lastPdf, fontsApi>>

handleDownloadPDF ==
    /\ calls < MaxCalls
    /\ calls' = calls + 1
    /\ IF contentRef = "null"
       THEN UNCHANGED <<isDownloading, timer, nodeStyle, proc>>
       ELSE /\ setIsDownloading(TRUE)
            /\ IF fontsApi
               THEN proc' = Append(proc, NewProc) /\ UNCHANGED nodeStyle
               ELSE proc' = Append(proc, LockWidth(NewProc)) /\ nodeStyle' = Locked
    /\ UNCHANGED <<formVars, lineVars, contentRef, lastPdf, fontsApi>>

\* document.fonts.ready resolves: on to the width lock and the animation frame
FontsReady(i) ==
    /\ proc[i].pc = "fonts"
    /\ proc' = [proc EXCEPT ![i] = LockWidth(@)]
    /\ nodeStyle' = Locked
    /\ UNCHANGED <<formVars, lineVars, contentRef, isDownloading, timer, lastPdf,
                   calls, fontsApi>>

\* the animation frame arrives: html2canvas is called
LayoutSettled(i) ==
    /\ proc[i].pc = "raf"
    /\ proc' = [proc EXCEPT ![i].pc = "raster"]
    /\ UNCHANGED <<formVars, lineVars, contentRef, isDownloading, timer, nodeStyle,
                   lastPdf, calls, fontsApi>>

\* html2canvas resolves: restore the styles, build and save the document
RasterResolve(i, canvas, page) ==
    /\ proc[i].pc = "raster"
    /\ nodeStyle' = [width |-> proc[i].prevWidth, maxWidth |-> proc[i].prevMaxWidth]
    /\ lastPdf' = BuildPdf(canvas, page)
    /\ proc' = [proc EXCEPT ![i].pc = "done"]
    /\ UNCHANGED <<formVars, lineVars, contentRef, isDownloading, timer, calls,
                   fontsApi>>

\* html2canvas rejects: the await throws and the function ends there
RasterReject(i) ==
    /\ proc[i].pc = "raster"
    /\ proc' = [proc EXCEPT ![i].pc = "failed"]
    /\ UNCHANGED <<formVars, lineVars, contentRef, isDownloading, timer, nodeStyle,
                   lastPdf, calls, fontsApi>>

\* the 3000 ms timer of the effect fires
TimerFire ==
    /\ timer = "armed"
    /\ isDownloading' = FALSE
    /\ timer' = "none"
    /\ UNCHANGED <<formVars, lineVars, contentRef, nodeStyle, proc, lastPdf, calls,
                   fontsApi>>

InitExport ==
    /\ contentRef = "null"
    /\ isDownloading = FALSE
    /\ timer = "none"
    /\ nodeStyle = [width |-> "", maxWidth |-> ""]
    /\ proc = <<>>
    /\ lastPdf = NoPdf
    /\ calls = 0
    /\ fontsApi \in BOOLEAN

\* the steps of the export, html2canvas and jsPDF answering from the given sets
ExportStep(canvases, pageSizes) ==
    \/ Mount
    \/ handleDownloadPDF
    \/ \E i \in 1..Len(proc) : FontsReady(i)
    \/ \E i \in 1..Len(proc) : LayoutSettled(i)
    \/ \E i \in 1..Len(proc), canvas \in canvases, page \in pageSizes :
            RasterResolve(i, canvas, page)
    \/ \E i \in 1..Len(proc) : RasterReject(i)
    \/ TimerFire

NextExport == ExportStep(Canvases, PageSizes)

\* the same steps with one page size and two canvases (one page, several pages):
\* the busy flag and its timer never read the document
ShortCanvas == [height |-> 1, width |-> 1]
TallCanvas == [height |-> MaxCanvasHeight, width |-> 1]
UnitPage == [width |-> 1, height |-> 1]
NextExportBusy == ExportStep({ShortCanvas, TallCanvas}, {UnitPage})

Init == InitForm /\ InitLines /\ InitExport

Next == NextForm \/ NextLines \/ NextExport

Spec == Init /\ [][Next]_vars
SpecForm == Init /\ [][NextForm]_vars
SpecLines == Init /\ [][NextLines]_vars
SpecExport == Init /\ [][NextExport]_vars
\* the browser delivers a pending timeout
SpecExportFair == Init /\ [][NextExportBusy]_vars /\ WF_vars(TimerFire)

---------------------------------------------------------------------------
(* Properties of the form state *)

AllFieldsProper == \A f \in Fields : ~FieldValue(f).nan

\* C6: in every reachable state the displayed total equals
\* baseRent + insurance + rsTax + cam of the current cell values (a NaN cell
\* makes both sides NaN); no edit leaves a stale total behind.
C6_TotalIsSum ==
    totalRent = Add(Add(Add(baseRent, insurance), rsTax), cam)

\* C6 witness: the latest edit was to cam, after an earlier edit to baseRent,
\* and the total carries both amounts
C6_Witness ==
    /\ lastInput.field = "cam"
    /\ AllFieldsProper
    /\ baseRent.v > 0
    /\ cam.v > 0
    /\ totalRent = Num(baseRent.v + insurance.v + rsTax.v + cam.v)

HasNoDigit(t) == \A k \in 1..Len(t) : ~IsDigit(t[k])

\* C7: the cell written by onChange holds toNumber of the typed text, which is
\* 1234.56 for "$1,234.56abc", 0 for the empty string and 0 for every text
\* without a digit character.
C7_ToNumberAsClaimed ==
    lastInput.field # "none" =>
        LET t == lastInput.text
            n == FieldValue(lastInput.field)
        IN  /\ (t = ExampleDollars => n = Num((123456 * Scale) \div 100))
            /\ (t = <<>> => n = Zero)
            /\ (HasNoDigit(t) => n = Zero)

\* C8: whatever was typed, every currency cell holds a proper number (never
\* NaN), and so does the total.
C8_AlwaysProperNumbers ==
    /\ AllFieldsProper
    /\ ~totalRent.nan

---------------------------------------------------------------------------
(* Properties of the custom lines *)

\* the sequence s without its k-th element
Without(s, k) == SubSeq(s, 1, k - 1) \o SubSeq(s, k + 1, Len(s))

\* C9: removeLine(id) removes exactly the one line identified by id and keeps
\* every other line, its text and the order; addLine appends one line at the
\* end; updateLine keeps the ids and their order.
C9_RemoveExactlyOne ==
    [][/\ \A id \in Tokens :
            removeLine(id) =>
                \E k \in 1..Len(lines) : lines[k].id = id /\ lines' = Without(lines, k)
       /\ addLine => SubSeq(lines', 1, Len(lines)) = lines /\ Len(lines') = Len(lines) + 1
       /\ \A id \in Tokens, text \in Texts :
            updateLine(id, text) =>
                /\ Len(lines') = Len(lines)
                /\ \A k \in 1..Len(lines) : lines'[k].id = lines[k].id
      ]_vars

---------------------------------------------------------------------------
(* Properties of the pagination *)

Saved == lastPdf.pages # <<>>

\* the scaled image height Ih = H * Pw / W and the page height Ph of the saved
\* document, as numerators over canvas.width
SavedIh == lastPdf.canvas.height * lastPdf.page.width
SavedPh == lastPdf.page.height * lastPdf.canvas.width

\* ceil(a / b) for a >= 0, b > 0
CeilDiv(a, b) == (a + b - 1) \div b

\* C1 as stated: every saved document has exactly ceil(Ih / Ph) pages.
C1_PageCountIsCeil ==
    Saved => Len(lastPdf.pages) = CeilDiv(SavedIh, SavedPh)

\* C1 amended: every saved document has ceil(Ih / Ph) pages when Ih > 0 and one
\* page when Ih = 0; so Ih = 2*Ph gives 2 pages and Ih = 2*Ph + 1 gives 3.
C1_PageCount ==
    Saved =>
        /\ Len(lastPdf.pages) = IF SavedIh = 0 THEN 1 ELSE CeilDiv(SavedIh, SavedPh)
        /\ (SavedIh = 2 * SavedPh => Len(lastPdf.pages) = 2)
        /\ (SavedIh = 2 * SavedPh + lastPdf.canvas.width => Len(lastPdf.pages) = 3)

\* C1 witness: a saved document whose image is one unit taller than two pages
C1_Witness ==
    /\ Saved
    /\ SavedIh = 2 * SavedPh + lastPdf.canvas.width
    /\ Len(lastPdf.pages) = 3

\* C2: a saved document whose image is at most one page high (zero height
\* included) has exactly one page.
C2_SinglePage ==
    (Saved /\ SavedIh <= SavedPh) => Len(lastPdf.pages) = 1

\* C2 witness: the image fills exactly one page and one page was emitted
C2_Witness ==
    /\ Saved
    /\ SavedIh = SavedPh
    /\ Len(lastPdf.pages) = 1

---------------------------------------------------------------------------
(* Properties of the export *)

\* C3: once an export whose rasterization failed has ended, the node's width
\* and max-width are what they were when that export started and
\* isDownloading is false.
C3_RestoredAfterFailure ==
    \A i \in 1..Len(proc) :
        proc[i].pc = "failed" => (nodeStyle = proc[i].start /\ ~isDownloading)

\* C4: at most one html2canvas rasterization is in flight.
C4_OneRasterization ==
    Cardinality({i \in 1..Len(proc) : proc[i].pc = "raster"}) <= 1

\* C5: whenever isDownloading is true it eventually becomes false again, also
\* when the rasterization never settles.
C5_BusyClears == isDownloading ~> ~isDownloading

\* C5 witness: the flag has been cleared while a rasterization is still pending
C5_Witness ==
    /\ ~isDownloading
    /\ timer = "none"
    /\ \E i \in 1..Len(proc) : proc[i].pc = "raster"

\* C10: an invocation of handleDownloadPDF while contentRef.current is null
\* changes nothing: no mode switch, no style change, no rasterization started,
\* no file saved.
C10_AbortChangesNothing ==
    [][(calls' # calls /\ contentRef = "null") =>
          UNCHANGED <<isDownloading, timer, nodeStyle, proc, lastPdf, contentRef,
                      formVars, lineVars>>]_vars

\* C10 witness: the handler has been invoked before the node was attached
C10_Witness ==
    /\ calls > 0
    /\ contentRef = "null"
    /\ ~isDownloading
    /\ proc = <<>>

\* the step in which invocation i calls pdf.save
Saves(i) == i <= Len(proc) /\ proc[i].pc = "raster" /\ proc'[i].pc = "done"

\* C11: the view is in capture mode (isDownloading true) for as long as a
\* rasterization runs, and it is back in edit mode (isDownloading false) when
\* pdf.save is called.
C11_ModeAroundRasterization ==
    [][/\ \A i \in 1..Len(proc') : proc'[i].pc = "raster" => isDownloading'
       /\ \A i \in 1..Len(proc) : Saves(i) => ~isDownloading
      ]_vars

\* C12: once every export that was started has run to completion, the node's
\* width and max-width are what they were before the first export started.
C12_StylesRestoredAfterAll ==
    (Len(proc) > 0 /\ \A i \in 1..Len(proc) : proc[i].pc = "done")
        => nodeStyle = proc[1].start

\* C13: every page of a saved document carries the same full-height scaled
\* image, the k-th page at vertical offset -(k-1)*pageHeight, so that page k
\* shows the rows from (k-1)*pageHeight up to k*pageHeight; the pages reach the
\* bottom of the image and no page starts at or below it (the loop stops as
\* soon as the remaining height is zero or negative).
C13_SlidingWindow ==
    Saved =>
        LET n == Len(lastPdf.pages)
        IN  /\ \A k \in 1..n : lastPdf.pages[k].height = SavedIh
            /\ \A k \in 1..n : lastPdf.pages[k].position = -((k - 1) * SavedPh)
            /\ n * SavedPh >= SavedIh
            /\ (n > 1 => (n - 1) * SavedPh < SavedIh)

\* C13 witness: a saved document whose third page shows the last, partly
\* filled window of the image
C13_Witness ==
    /\ Saved
    /\ Len(lastPdf.pages) = 3
    /\ lastPdf.pages[2].position = -SavedPh
    /\ lastPdf.pages[3].position = -(2 * SavedPh)
    /\ SavedIh < 3 * SavedPh

=============================================================================
